---- MODULE Spec2Model ----
(***************************************************************************)
(* Model of scripts/project_migration.py, the template migration           *)
(* assistant: one invocation of main() validates the slug, locates the     *)
(* Flutter project directory, rewrites documentation, helper scripts, CI   *)
(* and package metadata, renames the project directory, rewrites platform  *)
(* identifiers, sweeps the tree with literal replacements and scans for    *)
(* leftovers.  Successive invocations work on the same file system.        *)
(*                                                                         *)
(* Text and paths are sequences of one-character strings, so that          *)
(* str.replace, the regular expressions and the path operations are        *)
(* computed as Python computes them.  The backquote character, which a    *)
(* TLA+ string cannot hold, is written "backtick".  Paths are POSIX paths  *)
(* relative to ROOT; ROOT itself is the empty path.                        *)
(***************************************************************************)
EXTENDS Integers, Sequences, FiniteSets, TLC

VARIABLES
    fs,         \* regular files below ROOT: path -> content
    dirs,       \* directories below ROOT that hold no modelled file
    ctx,        \* the Context of the running invocation
    changed,    \* the changed list of the running invocation
    leftovers,  \* result of find_remaining_markers: set of <<pattern, path>>
    pc,         \* "idle" between invocations, else the next step of main()
    exit,       \* how the last finished invocation ended
    argv,       \* command line of the running (or last) invocation
    prev,       \* command line and exit of the invocation before that
    run,        \* number of invocations started
    fs0,        \* history: fs when the running invocation started
    dirs0,      \* history: dirs when the running invocation started
    start_name, \* history: project directory name located by parse_args
    names_ever, \* history: the names the located project directory has had, in order
    steps,      \* history: the passes of main() finished in this invocation
    call        \* history: arguments and pre-state of the last update_file call

vars == <<fs, dirs, ctx, changed, leftovers, pc, exit, argv, prev, run,
          fs0, dirs0, start_name, names_ever, steps, call>>

----------------------------------------------------------------------------
(* Bounds of the model *)

\* invocations of the script in one behaviour
MaxRuns == 3
\* update_file calls in one behaviour of SpecUpdateFile
MaxCalls == 3

----------------------------------------------------------------------------
(* Characters and Python's str methods *)

Range(s) == {s[i] : i \in DOMAIN s}

LowerChars == <<"a","b","c","d","e","f","g","h","i","j","k","l","m","n","o","p","q","r","s","t","u","v","w","x","y","z">>
UpperChars == <<"A","B","C","D","E","F","G","H","I","J","K","L","M","N","O","P","Q","R","S","T","U","V","W","X","Y","Z">>
DigitChars == <<"0","1","2","3","4","5","6","7","8","9">>
\* the characters of the model in ASCII order (sorted() compares code points)
AsciiOrder == <<"\n"," ","!","\"","#","$","-",".","/">> \o DigitChars \o <<":","<","=",">">> \o UpperChars \o <<"_","backtick">> \o LowerChars

WordChars == Range(LowerChars) \cup Range(UpperChars) \cup Range(DigitChars) \cup {"_"}
SpaceChars == {" ", "\n", "\t", "\r", "\f"}
\* regex \w (ASCII part)
is_word(c) == c \in WordChars
\* regex \s and str.strip()
is_space(c) == c \in SpaceChars

index_in(s, c) == CHOOSE i \in DOMAIN s : s[i] = c
to_upper(c) == IF c \in Range(LowerChars) THEN UpperChars[index_in(LowerChars, c)] ELSE c
to_lower(c) == IF c \in Range(UpperChars) THEN LowerChars[index_in(UpperChars, c)] ELSE c
CodePoints == [c \in Range(AsciiOrder) |-> index_in(AsciiOrder, c)]
ord(c) == CodePoints[c]

\* str.upper(), str.lower(), str.capitalize()
upper(text) == [i \in DOMAIN text |-> to_upper(text[i])]
lower(text) == [i \in DOMAIN text |-> to_lower(text[i])]
capitalize(text) == [i \in DOMAIN text |-> IF i = 1 THEN to_upper(text[i]) ELSE to_lower(text[i])]

\* pat occurs in text at index i
match_at(text, pat, i) ==
    /\ i + Len(pat) - 1 <= Len(text)
    /\ \A k \in 1..Len(pat) : text[i + k - 1] = pat[k]

\* the least element of a non-empty set of indices
first_index(hits) == CHOOSE j \in hits : \A k \in hits : j <= k

contains(text, pat) == \E i \in 1..Len(text) : match_at(text, pat, i)
starts_with(text, pat) == match_at(text, pat, 1)
ends_with(text, pat) == Len(pat) <= Len(text) /\ match_at(text, pat, Len(text) - Len(pat) + 1)

RECURSIVE replace_from(_, _, _, _, _)
\* str.replace from index i on: left to right, non-overlapping, at most count
\* occurrences (count < 0: all).  Every pattern of the program is non-empty.
replace_from(text, old, new, i, count) ==
    LET hits == {j \in i..Len(text) : text[j] = old[1] /\ match_at(text, old, j)}
    IN IF count = 0 \/ hits = {} THEN SubSeq(text, i, Len(text))
       ELSE LET j == first_index(hits)
            IN SubSeq(text, i, j - 1) \o new
                   \o replace_from(text, old, new, j + Len(old), count - 1)

\* text.replace(old, new)
str_replace(text, old, new) == replace_from(text, old, new, 1, -1)
\* text.replace(old, new, 1)
str_replace_first(text, old, new) == replace_from(text, old, new, 1, 1)

RECURSIVE strip_left(_)
strip_left(text) ==
    IF text # <<>> /\ is_space(Head(text)) THEN strip_left(Tail(text)) ELSE text
RECURSIVE strip_right(_)
strip_right(text) ==
    IF text # <<>> /\ is_space(text[Len(text)])
    THEN strip_right(SubSeq(text, 1, Len(text) - 1)) ELSE text
\* str.strip()
strip(text) == strip_right(strip_left(text))

\* regex \b between text[pos - 1] and text[pos]
word_boundary(text, pos) ==
    LET before == pos > 1 /\ pos - 1 <= Len(text) /\ is_word(text[pos - 1])
        after == pos >= 1 /\ pos <= Len(text) /\ is_word(text[pos])
    IN before # after

PortalisWord == <<"P","o","r","t","a","l","i","s">>

RECURSIVE sub_word_from(_, _, _)
\* the matches of \bPortalis\b from index i on are replaced, left to right
sub_word_from(text, replacement, i) ==
    LET hits == {j \in i..Len(text) : /\ match_at(text, PortalisWord, j)
                                      /\ word_boundary(text, j)
                                      /\ word_boundary(text, j + Len(PortalisWord))}
    IN IF hits = {} THEN SubSeq(text, i, Len(text))
       ELSE LET j == first_index(hits)
            IN SubSeq(text, i, j - 1) \o replacement
                   \o sub_word_from(text, replacement, j + Len(PortalisWord))

\* WORD_PORTALIS.sub(replacement, text) with WORD_PORTALIS = \bPortalis\b
replace_portalis_word(text, replacement) == sub_word_from(text, replacement, 1)

RECURSIVE skip_spaces(_, _)
\* the index after a greedy \s* starting at i
skip_spaces(text, i) ==
    IF i <= Len(text) /\ is_space(text[i]) THEN skip_spaces(text, i + 1) ELSE i

NameKey == <<"n","a","m","e",":">>

RECURSIVE sub_name_from(_, _, _, _)
\* re.sub(rf"^name:\s*{name}\b", f"name: {slug}", text, flags=re.MULTILINE);
\* name is made of word characters, so \s* never gives a character back
sub_name_from(text, name, slug, i) ==
    IF i > Len(text) THEN <<>>
    ELSE LET k == skip_spaces(text, i + Len(NameKey))
             hit == /\ (i = 1 \/ text[i - 1] = "\n")
                    /\ match_at(text, NameKey, i)
                    /\ match_at(text, name, k)
                    /\ word_boundary(text, k + Len(name))
         IN IF hit
            THEN NameKey \o <<" ">> \o slug \o sub_name_from(text, name, slug, k + Len(name))
            ELSE <<text[i]>> \o sub_name_from(text, name, slug, i + 1)

re_sub_name(text, name, slug) == sub_name_from(text, name, slug, 1)

RECURSIVE split_parts(_, _)
\* the non-empty items of re.split(r"[-_]+", text); cur is the item being read
split_parts(text, cur) ==
    IF text = <<>> THEN (IF cur = <<>> THEN <<>> ELSE <<cur>>)
    ELSE IF Head(text) \in {"-", "_"}
         THEN (IF cur = <<>> THEN <<>> ELSE <<cur>>) \o split_parts(Tail(text), <<>>)
         ELSE split_parts(Tail(text), Append(cur, Head(text)))

RECURSIVE join_with(_, _)
\* sep.join(items)
join_with(items, sep) ==
    IF items = <<>> THEN <<>>
    ELSE IF Len(items) = 1 THEN items[1]
    ELSE items[1] \o sep \o join_with(Tail(items), sep)

capitalized_parts(slug) ==
    LET ps == split_parts(slug, <<>>) IN [i \in DOMAIN ps |-> capitalize(ps[i])]

derive_app_title(slug) ==
    LET t == join_with(capitalized_parts(slug), <<" ">>)
    IN IF t # <<>> THEN t ELSE capitalize(slug)

derive_pascal(slug) ==
    LET t == join_with(capitalized_parts(slug), <<>>)
    IN IF t # <<>> THEN t ELSE capitalize(slug)

sanitize_bundle_suffix(name) ==
    LET suffix == SelectSeq(lower(name),
                            LAMBDA c : c \in Range(LowerChars) \cup Range(DigitChars))
    IN IF suffix # <<>> THEN suffix ELSE <<"a","p","p">>

\* a broken validation that accepts every slug
slug_is_valid_any(slug) == TRUE

\* re.fullmatch(r"[a-z][a-z0-9_]*", slug)
slug_is_valid(slug) ==
    /\ slug # <<>>
    /\ slug[1] \in Range(LowerChars)
    /\ \A i \in 2..Len(slug) : slug[i] \in Range(LowerChars) \cup Range(DigitChars) \cup {"_"}

----------------------------------------------------------------------------
(* Paths *)

ROOT == <<>>
Slash == <<"/">>

\* parent / name
child(parent, name) == IF parent = ROOT THEN name ELSE parent \o Slash \o name

slashes(path) == {i \in DOMAIN path : path[i] = "/"}

\* Path.parts of a relative path, as a set
path_parts(path) ==
    LET starts == {1} \cup {i + 1 : i \in slashes(path)}
        ends == {Len(path)} \cup {i - 1 : i \in slashes(path)}
    IN {SubSeq(path, s, first_index({e \in ends : e >= s})) : s \in starts}

\* len(Path.parts)
path_depth(path) == Cardinality(slashes(path)) + 1

\* Path.name
path_name(path) ==
    LET last == IF slashes(path) = {} THEN 0
                ELSE CHOOSE i \in slashes(path) : \A j \in slashes(path) : j <= i
    IN SubSeq(path, last + 1, Len(path))

\* Path.parts[0]
path_top(path) ==
    LET first == IF slashes(path) = {} THEN Len(path) + 1
                 ELSE CHOOSE i \in slashes(path) : \A j \in slashes(path) : i <= j
    IN SubSeq(path, 1, first - 1)

\* Path.suffix: from the last dot of the name, unless the dot starts or ends it
path_suffix(path) ==
    LET n == path_name(path)
        dots == {i \in DOMAIN n : n[i] = "."}
    IN IF dots = {} THEN <<>>
       ELSE LET i == CHOOSE d \in dots : \A e \in dots : e <= d
            IN IF i > 1 /\ i < Len(n) THEN SubSeq(n, i, Len(n)) ELSE <<>>

\* path lies strictly below base
is_below(path, base) == base = ROOT \/ starts_with(path, base \o Slash)

\* base renamed to target: the path of what was at path
moved(path, base, target) ==
    IF path = base THEN target
    ELSE IF is_below(path, base) THEN target \o SubSeq(path, Len(base) + 1, Len(path))
    ELSE path

RECURSIVE first_difference(_, _, _)
\* the first index from k on at which a and b differ or one of them ends
first_difference(a, b, k) ==
    IF k > Len(a) \/ k > Len(b) \/ a[k] # b[k] THEN k ELSE first_difference(a, b, k + 1)

\* a < b by code points
lex_less(a, b) ==
    LET k == first_difference(a, b, 1)
    IN k <= Len(b) /\ (k > Len(a) \/ ord(a[k]) < ord(b[k]))

\* sorted(S): the element at index i has i - 1 elements of S below it
sorted_seq(S) ==
    LET below == [x \in S |-> Cardinality({y \in S : lex_less(y, x)})]
    IN [i \in 1..Cardinality(S) |-> CHOOSE x \in S : below[x] = i - 1]

\* the orders in which a Python set may be iterated
orderings(S) == {s \in [1..Cardinality(S) -> S] : \A i, j \in DOMAIN s : s[i] = s[j] => i = j}

----------------------------------------------------------------------------
(* Module constants of the script *)

DEFAULT_DIRNAME == <<"p","o","r","t","a","l","i","s">>
SKIP_DIRS == {<<".","g","i","t">>, <<".","d","a","r","t","_","t","o","o","l">>, <<"b","u","i","l","d">>, <<"D","e","r","i","v","e","d","D","a","t","a">>, <<"n","o","d","e","_","m","o","d","u","l","e","s">>,
              <<".","g","r","a","d","l","e">>, <<"t","a","r","g","e","t">>}
TEXT_EXTS == {<<".","d","a","r","t">>, <<".","r","s">>, <<".","y","a","m","l">>, <<".","y","m","l">>, <<".","j","s","o","n">>, <<".","m","d">>, <<".","t","x","t">>,
              <<".","x","m","l">>, <<".","g","r","a","d","l","e">>, <<".","k","t">>, <<".","k","t","s">>, <<".","s","w","i","f","t">>, <<".","m">>, <<".","m","m">>,
              <<".","h">>, <<".","h","p","p">>, <<".","c">>, <<".","c","c">>, <<".","c","p","p">>, <<".","c","m","a","k","e">>, <<".","p","l","i","s","t">>,
              <<".","x","c","c","o","n","f","i","g">>, <<".","c","f","g">>, <<".","c","o","n","f">>, <<".","i","n","i">>, <<".","p","s","1">>, <<".","s","h">>, <<".","b","a","t">>,
              <<".","t","o","m","l">>, <<".","l","o","c","k">>, <<".","p","r","o","p","e","r","t","i","e","s">>, <<".","p","b","x","p","r","o","j">>, <<".","r","c">>, <<".","x","c","s","c","h","e","m","e">>}
SPECIAL_FILENAMES == {<<"p","r","o","j","e","c","t",".","p","b","x","p","r","o","j">>}
SCRIPT_PATH == <<"s","c","r","i","p","t","s","/","p","r","o","j","e","c","t","_","m","i","g","r","a","t","i","o","n",".","p","y">>

PUBSPEC == <<"p","u","b","s","p","e","c",".","y","a","m","l">>
README == <<"R","E","A","D","M","E",".","m","d">>

----------------------------------------------------------------------------
(* The file system *)

entries(f, d) == DOMAIN f \cup d

\* Path.exists()
path_exists(f, d, path) ==
    \/ path = ROOT
    \/ path \in entries(f, d)
    \/ \E q \in entries(f, d) : is_below(q, path)

\* Path.is_dir()
is_dir(f, d, path) ==
    \/ path = ROOT
    \/ path \in d
    \/ \E q \in entries(f, d) : is_below(q, path)

\* old.rename(new) of a directory, new not existing: everything below old
\* moves below new
rename_files(f, old, new) ==
    [p \in {moved(q, old, new) : q \in DOMAIN f} |-> f[moved(p, new, old)]]

rename_dirs(d, old, new) == {moved(q, old, new) : q \in d}

\* the names of the entries of ROOT
root_entries(f, d) == {path_top(q) : q \in entries(f, d)}

\* regular files below base, in the order the walk visits them
files_below(f, base) == sorted_seq({q \in DOMAIN f : is_below(q, base)})

----------------------------------------------------------------------------
(* The changed list and the file rewriter *)

\* paths are kept relative to ROOT in POSIX form, which is what
\* path.relative_to(ROOT).as_posix() yields
record_change(changed_list, rel) ==
    IF \E i \in DOMAIN changed_list : changed_list[i] = rel
    THEN changed_list
    ELSE Append(changed_list, rel)

NoNames == <<>>
NoPairs == <<>>

RECURSIVE apply_pairs(_, _)
\* for old, new in pairs: text = text.replace(old, new)
apply_pairs(text, pairs) ==
    IF pairs = <<>> THEN text
    ELSE apply_pairs(str_replace(text, pairs[1][1], pairs[1][2]), Tail(pairs))

RECURSIVE name_pairs(_, _, _, _)
\* for name in names: the pair (before + name + after, before + slug + after)
name_pairs(names, slug, before, after) ==
    IF names = <<>> THEN <<>>
    ELSE << <<before \o Head(names) \o after, before \o slug \o after>> >>
         \o name_pairs(Tail(names), slug, before, after)

RECURSIVE interleave(_, _)
\* the pairs of a loop body with two replacements per name, in loop order
interleave(a, b) ==
    IF a = <<>> THEN b
    ELSE IF b = <<>> THEN a
    ELSE <<a[1], b[1]>> \o interleave(Tail(a), Tail(b))

RECURSIVE interleave3(_, _, _)
interleave3(a, b, c) ==
    IF a = <<>> THEN <<>>
    ELSE <<a[1], b[1], c[1]>> \o interleave3(Tail(a), Tail(b), Tail(c))

\* update_readmes.transform_root
transform_root(c, text) ==
    LET t1 == str_replace(text, <<"t","i","t","l","e","=","\"","P","o","r","t","a","l","i","s","\"">>, <<"t","i","t","l","e","=","\"">> \o c.app_title \o <<"\"">>)
        t2 == str_replace_first(t1, <<"#"," ","P","o","r","t","a","l","i","s">>, <<"#"," ">> \o c.app_title)
    IN replace_portalis_word(t2, c.app_title)

\* update_readmes.transform_flutter
transform_flutter(c, text) ==
    replace_portalis_word(str_replace_first(text, <<"#"," ","P","o","r","t","a","l","i","s">>, <<"#"," ">> \o c.app_title),
                          c.app_title)

\* update_docs.transform
transform_doc(c, names, text) ==
    apply_pairs(replace_portalis_word(text, c.app_title),
                interleave(name_pairs(names, c.slug, <<"backtick">>, <<"/","backtick">>),
                           name_pairs(names, c.slug, <<>>, <<".","e","x","e">>)))

\* update_tests_scripts.transform
transform_script(c, names, text) ==
    replace_portalis_word(
        apply_pairs(text,
            interleave3(name_pairs(names, c.slug, <<"\"","$","P","R","O","J","E","C","T","_","R","O","O","T","/">>, <<"\"">>),
                        name_pairs(names, c.slug, <<"\"","$","R","O","O","T","_","D","I","R","/">>, <<"\"">>),
                        name_pairs(names, c.slug, <<"\"","$","P","R","O","J","E","C","T","_","R","O","O","T","/",".",".","/">>, <<"\"">>))),
        c.app_title)

\* update_ci.transform_workflow
transform_workflow(c, names, text) ==
    replace_portalis_word(
        apply_pairs(text, name_pairs(names, c.slug, <<"W","O","R","K","I","N","G","_","D","I","R",":"," ">>, <<>>)),
        c.app_title)

\* update_ci.transform_action
transform_action(c, names, text) ==
    replace_portalis_word(
        str_replace(apply_pairs(text, name_pairs(names, c.slug, <<"d","e","f","a","u","l","t",":"," ">>, <<>>)),
                    <<"P","o","r","t","a","l","i","s","-">>, c.pascal_name \o <<"-">>),
        c.app_title)

RECURSIVE sub_names(_, _, _)
\* for name in names: text = re.sub(^name:\s*{name}\b, name: {slug}, text)
sub_names(text, names, slug) ==
    IF names = <<>> THEN text
    ELSE sub_names(re_sub_name(text, Head(names), slug), Tail(names), slug)

\* update_flutter_package.transform_pubspec
transform_pubspec(c, names, text) ==
    replace_portalis_word(sub_names(text, names, c.slug), c.app_title)

\* update_flutter_package.transform_main and transform_test
transform_main(c, names, text) ==
    replace_portalis_word(
        apply_pairs(text, name_pairs(names, c.slug, <<"p","a","c","k","a","g","e",":">>, <<"/">>)),
        c.app_title)

\* update_flutter_package: the Info.plist lambda
transform_plist(c, text) ==
    str_replace(text, <<"<","s","t","r","i","n","g",">","P","o","r","t","a","l","i","s","<","/","s","t","r","i","n","g",">">>,
                <<"<","s","t","r","i","n","g",">">> \o c.app_title \o <<"<","/","s","t","r","i","n","g",">">>)

\* update_flutter_package.transform_web
transform_web(c, text) ==
    apply_pairs(text,
        << <<<<"c","o","n","t","e","n","t","=","\"","p","o","r","t","a","l","i","s","\"">>, <<"c","o","n","t","e","n","t","=","\"">> \o c.app_title \o <<"\"">>>>,
           <<<<"c","o","n","t","e","n","t","=","\"","P","o","r","t","a","l","i","s","\"">>, <<"c","o","n","t","e","n","t","=","\"">> \o c.app_title \o <<"\"">>>>,
           <<<<"<","t","i","t","l","e",">","p","o","r","t","a","l","i","s","<","/","t","i","t","l","e",">">>, <<"<","t","i","t","l","e",">">> \o c.app_title \o <<"<","/","t","i","t","l","e",">">>>>,
           <<<<"<","t","i","t","l","e",">","P","o","r","t","a","l","i","s","<","/","t","i","t","l","e",">">>, <<"<","t","i","t","l","e",">">> \o c.app_title \o <<"<","/","t","i","t","l","e",">">>>> >>)

\* update_flutter_package: the web manifest lambda
transform_manifest(c, text) ==
    apply_pairs(text,
        << <<<<"\"","n","a","m","e","\"",":"," ","\"","p","o","r","t","a","l","i","s","\"">>, <<"\"","n","a","m","e","\"",":"," ","\"">> \o c.app_title \o <<"\"">>>>,
           <<<<"\"","s","h","o","r","t","_","n","a","m","e","\"",":"," ","\"","p","o","r","t","a","l","i","s","\"">>, <<"\"","s","h","o","r","t","_","n","a","m","e","\"",":"," ","\"">> \o c.app_title \o <<"\"">>>> >>)

\* update_platform_identifiers: the AndroidManifest.xml lambda
transform_label(c, text) ==
    str_replace(text, <<"a","n","d","r","o","i","d",":","l","a","b","e","l","=","\"","p","o","r","t","a","l","i","s","\"">>,
                <<"a","n","d","r","o","i","d",":","l","a","b","e","l","=","\"">> \o c.app_title \o <<"\"">>)

\* A transform closure is a record: its kind, the Context and the name order
\* it captured, and (for the tree walk) the replacement pairs.
closure(kind, c, names, pairs) == [kind |-> kind, c |-> c, names |-> names, pairs |-> pairs]

apply_transform(tf, text) ==
    CASE tf.kind = "transform_root" -> transform_root(tf.c, text)
      [] tf.kind = "transform_flutter" -> transform_flutter(tf.c, text)
      [] tf.kind = "transform_doc" -> transform_doc(tf.c, tf.names, text)
      [] tf.kind = "transform_script" -> transform_script(tf.c, tf.names, text)
      [] tf.kind = "transform_workflow" -> transform_workflow(tf.c, tf.names, text)
      [] tf.kind = "transform_action" -> transform_action(tf.c, tf.names, text)
      [] tf.kind = "transform_pubspec" -> transform_pubspec(tf.c, tf.names, text)
      [] tf.kind = "transform_main" -> transform_main(tf.c, tf.names, text)
      [] tf.kind = "transform_plist" -> transform_plist(tf.c, text)
      [] tf.kind = "transform_web" -> transform_web(tf.c, text)
      [] tf.kind = "transform_manifest" -> transform_manifest(tf.c, text)
      [] tf.kind = "transform_label" -> transform_label(tf.c, text)
      \* transform_gradle and apply_replacements_in_tree.transform
      [] tf.kind = "pairs" -> apply_pairs(text, tf.pairs)

\* update_file that writes and records even when the content is unchanged
update_file_always(st, path, tf) ==
    IF path \notin DOMAIN st.fs THEN st
    ELSE [st EXCEPT !.fs[path] = apply_transform(tf, st.fs[path]),
                    !.changed = record_change(st.changed, path)]

\* st is the pair of the file system and the changed list
update_file(st, path, tf) ==
    IF path \notin DOMAIN st.fs THEN st
    ELSE LET original == st.fs[path]
             updated == apply_transform(tf, original)
         IN IF original # updated
            THEN [st EXCEPT !.fs[path] = updated,
                            !.changed = record_change(st.changed, path)]
            ELSE st

RECURSIVE update_files(_, _, _)
\* for path in paths: update_file(path, transform, changed)
update_files(st, paths, tf) ==
    IF paths = <<>> THEN st
    ELSE update_files(update_file(st, Head(paths), tf), Tail(paths), tf)

----------------------------------------------------------------------------
(* The Context and its construction *)

NoContext ==
    [slug |-> <<>>, app_title |-> <<>>, pascal_name |-> <<>>, flutter_dir |-> ROOT,
     current_dir_name |-> <<>>, previous_names |-> {}, bundle_suffix |-> <<>>,
     previous_bundle_suffixes |-> {}]

has_manifest(f, d, dir) == path_exists(f, d, child(dir, PUBSPEC))

\* the sorted directories of ROOT that hold a manifest
manifest_dirs(f, d) ==
    sorted_seq({n \in root_entries(f, d) : is_dir(f, d, n) /\ has_manifest(f, d, n)})

\* found = FALSE stands for the SystemExit
locate_flutter_dir(slug, f, d) ==
    IF has_manifest(f, d, child(ROOT, slug))
    THEN [found |-> TRUE, dir |-> child(ROOT, slug), name |-> slug]
    ELSE IF has_manifest(f, d, child(ROOT, DEFAULT_DIRNAME))
    THEN [found |-> TRUE, dir |-> child(ROOT, DEFAULT_DIRNAME), name |-> DEFAULT_DIRNAME]
    ELSE LET candidates == manifest_dirs(f, d)
         IN IF candidates # <<>>
            THEN [found |-> TRUE, dir |-> candidates[1], name |-> path_name(candidates[1])]
            ELSE [found |-> FALSE, dir |-> ROOT, name |-> <<>>]

\* the rename sources without the detected directory name
initial_previous_names_default(current_name) == {DEFAULT_DIRNAME}

\* previous_names = {DEFAULT_DIRNAME, current_name}
initial_previous_names(current_name) == {DEFAULT_DIRNAME, current_name}

\* a command line: --slug, and --app-title when has_title
\* status: "ok", or the SystemExit "usage" (bad slug) or "notfound"
parse_args(a, f, d) ==
    LET slug == strip(a.slug)
        loc == locate_flutter_dir(slug, f, d)
    IN IF ~slug_is_valid(slug) THEN [status |-> "usage", ctx |-> NoContext]
       ELSE IF ~loc.found THEN [status |-> "notfound", ctx |-> NoContext]
       ELSE [status |-> "ok",
             ctx |-> [slug |-> slug,
                      app_title |-> IF a.has_title /\ a.app_title # <<>>
                                    THEN strip(a.app_title)
                                    ELSE derive_app_title(slug),
                      pascal_name |-> derive_pascal(slug),
                      flutter_dir |-> loc.dir,
                      current_dir_name |-> loc.name,
                      previous_names |-> initial_previous_names(loc.name),
                      bundle_suffix |-> sanitize_bundle_suffix(slug),
                      previous_bundle_suffixes |->
                          {sanitize_bundle_suffix(DEFAULT_DIRNAME),
                           sanitize_bundle_suffix(loc.name)}]]

----------------------------------------------------------------------------
(* The passes of main().  st = [fs, dirs, changed]; names is the order in  *)
(* which the pass iterates its copy of ctx.previous_names, suffixes the    *)
(* order in which it iterates ctx.previous_bundle_suffixes.                *)

update_readmes(c, st) ==
    update_file(
        update_file(st, child(ROOT, README), closure("transform_root", c, NoNames, NoPairs)),
        child(c.flutter_dir, README), closure("transform_flutter", c, NoNames, NoPairs))

doc_paths == <<<<"d","o","c","/","o","v","e","r","v","i","e","w",".","m","d">>, <<"d","o","c","/","s","e","t","u","p","_","g","u","i","d","e",".","m","d">>, <<"d","o","c","/","b","u","i","l","d",".","m","d">>>>

update_docs(c, names, st) ==
    update_files(st, doc_paths, closure("transform_doc", c, names, NoPairs))

tests_dir == <<"t","e","s","t","s">>

\* tests_dir.glob("*.sh")
test_scripts(f) ==
    sorted_seq({q \in DOMAIN f : /\ is_below(q, tests_dir)
                                 /\ path_depth(q) = 2
                                 /\ ends_with(q, <<".","s","h">>)})

update_tests_scripts(c, names, st) ==
    IF ~path_exists(st.fs, st.dirs, tests_dir) THEN st
    ELSE update_files(st, test_scripts(st.fs), closure("transform_script", c, names, NoPairs))

workflow == <<".","g","i","t","h","u","b","/","w","o","r","k","f","l","o","w","s","/","p","i","p","e","l","i","n","e",".","y","m","l">>
actions_dir == <<".","g","i","t","h","u","b","/","a","c","t","i","o","n","s">>

\* actions_dir.glob("*/action.yml")
action_files(f) ==
    sorted_seq({q \in DOMAIN f : /\ is_below(q, actions_dir)
                                 /\ path_depth(q) = 4
                                 /\ path_name(q) = <<"a","c","t","i","o","n",".","y","m","l">>})

update_ci(c, names, st) ==
    LET st1 == update_file(st, workflow, closure("transform_workflow", c, names, NoPairs))
    IN IF ~path_exists(st1.fs, st1.dirs, actions_dir) THEN st1
       ELSE update_files(st1, action_files(st1.fs),
                         closure("transform_action", c, names, NoPairs))

update_flutter_package(c, names, st) ==
    LET d == c.flutter_dir
        s1 == update_file(st, child(d, PUBSPEC), closure("transform_pubspec", c, names, NoPairs))
        s2 == update_file(s1, child(d, <<"l","i","b","/","m","a","i","n",".","d","a","r","t">>),
                          closure("transform_main", c, names, NoPairs))
        s3 == update_file(s2, child(d, <<"t","e","s","t","/","w","i","d","g","e","t","_","t","e","s","t",".","d","a","r","t">>),
                          closure("transform_main", c, names, NoPairs))
        s4 == update_file(s3, child(d, <<"i","o","s","/","R","u","n","n","e","r","/","I","n","f","o",".","p","l","i","s","t">>),
                          closure("transform_plist", c, NoNames, NoPairs))
        s5 == update_file(s4, child(d, <<"w","e","b","/","i","n","d","e","x",".","h","t","m","l">>),
                          closure("transform_web", c, NoNames, NoPairs))
    IN update_file(s5, child(d, <<"w","e","b","/","m","a","n","i","f","e","s","t",".","j","s","o","n">>),
                   closure("transform_manifest", c, NoNames, NoPairs))

\* the rename that forgets the entries recorded so far
rewrite_entry_stale(entry, old_name, slug) == entry

\* the changed entry after the rename: entry.replace(f"{name}/", f"{slug}/", 1)
\* for the name of {DEFAULT_DIRNAME, old_name} the entry starts with
rewrite_entry(entry, old_name, slug) ==
    LET hits == {n \in {DEFAULT_DIRNAME, old_name} : starts_with(entry, n \o Slash)}
    IN IF hits = {} THEN entry
       ELSE str_replace_first(entry, (CHOOSE n \in hits : TRUE) \o Slash, slug \o Slash)

\* new_dir.exists()
rename_target_taken(f, d, target) == path_exists(f, d, target)

\* a rename step that leaves the directory alone and never fails
rename_flutter_directory_skip(c, st) == [status |-> "same", ctx |-> c, st |-> st]

\* status: "same" (nothing to do), "conflict" (the SystemExit) or "renamed"
rename_flutter_directory(c, st) ==
    IF c.current_dir_name = c.slug THEN [status |-> "same", ctx |-> c, st |-> st]
    ELSE LET old_dir == c.flutter_dir
             new_dir == child(ROOT, c.slug)
             old_name == c.current_dir_name
         IN IF rename_target_taken(st.fs, st.dirs, new_dir)
            THEN [status |-> "conflict", ctx |-> c, st |-> st]
            ELSE [status |-> "renamed",
                  ctx |-> [c EXCEPT !.previous_names = @ \cup {old_name},
                                    !.previous_bundle_suffixes =
                                        @ \cup {sanitize_bundle_suffix(old_name)},
                                    !.flutter_dir = new_dir,
                                    !.current_dir_name = c.slug],
                  st |-> [fs |-> rename_files(st.fs, old_dir, new_dir),
                          dirs |-> rename_dirs(st.dirs, old_dir, new_dir),
                          changed |->
                              record_change(
                                  [i \in DOMAIN st.changed |->
                                      rewrite_entry(st.changed[i], old_name, c.slug)],
                                  new_dir)]]

should_process(path) ==
    IF path_parts(path) \cap SKIP_DIRS # {} THEN FALSE
    ELSE IF path_name(path) \in SPECIAL_FILENAMES THEN TRUE
    ELSE path_suffix(path) \in TEXT_EXTS

\* the files the walk below base rewrites
walked(f, base) ==
    SelectSeq(files_below(f, base), LAMBDA q : q # SCRIPT_PATH /\ should_process(q))

apply_replacements_in_tree(st, base, replacements) ==
    IF replacements = <<>> THEN st
    ELSE update_files(st, walked(st.fs, base), closure("pairs", NoContext, NoNames, replacements))

BundlePrefix == <<"c","o","m",".","e","x","a","m","p","l","e",".">>

\* [f"com.example.{suffix}" for suffix in suffixes if suffix != bundle_suffix]
old_bundles(c, suffixes) ==
    LET olds == SelectSeq(suffixes, LAMBDA s : s # c.bundle_suffix)
    IN [i \in DOMAIN olds |-> BundlePrefix \o olds[i]]

RECURSIVE bundle_pairs(_, _)
\* for old in bundles: (old, new), (old.RunnerTests, new.RunnerTests), (old.backend, new.backend)
bundle_pairs(bundles, new_bundle) ==
    IF bundles = <<>> THEN <<>>
    ELSE << <<Head(bundles), new_bundle>>,
            <<Head(bundles) \o <<".","R","u","n","n","e","r","T","e","s","t","s">>, new_bundle \o <<".","R","u","n","n","e","r","T","e","s","t","s">>>>,
            <<Head(bundles) \o <<".","b","a","c","k","e","n","d">>, new_bundle \o <<".","b","a","c","k","e","n","d">>>> >>
         \o bundle_pairs(Tail(bundles), new_bundle)

RECURSIVE walk_bases(_, _, _)
\* for base in bases: if base.exists(): apply_replacements_in_tree(base, ...)
walk_bases(st, bases, replacements) ==
    IF bases = <<>> THEN st
    ELSE walk_bases(IF path_exists(st.fs, st.dirs, Head(bases))
                    THEN apply_replacements_in_tree(st, Head(bases), replacements)
                    ELSE st,
                    Tail(bases), replacements)

RECURSIVE quoted_pairs(_, _)
\* transform_gradle: for old in old_bundles: ("old", "new")
quoted_pairs(bundles, new_bundle) ==
    IF bundles = <<>> THEN <<>>
    ELSE << <<<<"\"">> \o Head(bundles) \o <<"\"">>, <<"\"">> \o new_bundle \o <<"\"">>>> >>
         \o quoted_pairs(Tail(bundles), new_bundle)

\* update_package_dirs, one language: the first old package directory that
\* exists is renamed to the new suffix, unless that one exists already
update_package_dir(c, suffixes, st, pkg_base) ==
    LET new_dir == child(pkg_base, c.bundle_suffix)
        olds == SelectSeq(suffixes, LAMBDA s : /\ s # c.bundle_suffix
                                               /\ path_exists(st.fs, st.dirs, child(pkg_base, s)))
    IN IF \/ ~path_exists(st.fs, st.dirs, pkg_base)
          \/ path_exists(st.fs, st.dirs, new_dir)
          \/ olds = <<>>
       THEN st
       ELSE [fs |-> rename_files(st.fs, child(pkg_base, olds[1]), new_dir),
             dirs |-> rename_dirs(st.dirs, child(pkg_base, olds[1]), new_dir),
             changed |-> record_change(st.changed, new_dir)]

update_platform_identifiers(c, suffixes, st) ==
    LET new_bundle == BundlePrefix \o c.bundle_suffix
        olds == old_bundles(c, suffixes)
        replacements ==
            bundle_pairs(olds, new_bundle)
            \o << <<<<"c","o","m",".","p","o","r","t","a","l","i","s",".","b","a","c","k","e","n","d">>, <<"c","o","m",".">> \o c.bundle_suffix \o <<".","b","a","c","k","e","n","d">>>> >>
        bases == <<child(c.flutter_dir, <<"a","n","d","r","o","i","d">>), child(c.flutter_dir, <<"i","o","s">>),
                   child(c.flutter_dir, <<"m","a","c","o","s">>), child(c.flutter_dir, <<"l","i","n","u","x">>),
                   child(c.flutter_dir, <<"w","i","n","d","o","w","s">>)>>
        android_dir == child(c.flutter_dir, <<"a","n","d","r","o","i","d">>)
        s1 == walk_bases(st, bases, replacements)
        s2 == update_file(s1, child(android_dir, <<"a","p","p","/","s","r","c","/","m","a","i","n","/","A","n","d","r","o","i","d","M","a","n","i","f","e","s","t",".","x","m","l">>),
                          closure("transform_label", c, NoNames, NoPairs))
        s3 == update_file(s2, child(android_dir, <<"a","p","p","/","b","u","i","l","d",".","g","r","a","d","l","e">>),
                          closure("pairs", NoContext, NoNames, quoted_pairs(olds, new_bundle)))
        s4 == update_package_dir(c, suffixes, s3,
                                 child(android_dir, <<"a","p","p","/","s","r","c","/","m","a","i","n","/","k","o","t","l","i","n","/","c","o","m","/","e","x","a","m","p","l","e">>))
    IN update_package_dir(c, suffixes, s4,
                          child(android_dir, <<"a","p","p","/","s","r","c","/","m","a","i","n","/","j","a","v","a","/","c","o","m","/","e","x","a","m","p","l","e">>))

\* ("Portalis", app_title)
brand_pairs(c) == << <<PortalisWord, c.app_title>> >>

global_replacements(c, names, suffixes) ==
    LET new_bundle == BundlePrefix \o c.bundle_suffix
    IN brand_pairs(c)
       \o << <<upper(PortalisWord), upper(c.app_title)>> >>
       \o interleave(name_pairs(names, c.slug, <<>>, <<>>),
                     name_pairs([i \in DOMAIN names |-> upper(names[i])], upper(c.slug),
                                <<>>, <<>>))
       \o bundle_pairs(old_bundles(c, suffixes), new_bundle)
       \o << <<<<"p","o","r","t","a","l","i","s",".","a","p","p">>, c.slug \o <<".","a","p","p">>>> >>

apply_global_replacements(c, names, suffixes, st) ==
    apply_replacements_in_tree(st, ROOT, global_replacements(c, names, suffixes))

----------------------------------------------------------------------------
(* The leftover scan.  rg is an external tool: by default it searches the  *)
(* regular files below the working directory, leaves out hidden files and  *)
(* directories, and prints path:line for every matching line.              *)

RECURSIVE split_lines(_, _)
\* str.splitlines()
split_lines(text, cur) ==
    IF text = <<>> THEN (IF cur = <<>> THEN <<>> ELSE <<cur>>)
    ELSE IF Head(text) = "\n" THEN <<cur>> \o split_lines(Tail(text), <<>>)
    ELSE split_lines(Tail(text), Append(cur, Head(text)))

is_hidden(path) == \E part \in path_parts(path) : part[1] = "."

\* the files with an output line that survives the filter on the script's path
rg_hits(f, pattern) ==
    {q \in DOMAIN f :
        /\ ~is_hidden(q)
        /\ \E l \in Range(split_lines(f[q], <<>>)) :
               /\ contains(l, pattern)
               /\ ~contains(q \o <<":">> \o l, SCRIPT_PATH)}

MarkerPatterns == {PortalisWord, DEFAULT_DIRNAME}

\* find_remaining_markers(["Portalis", "portalis"]); rg_installed = FALSE is
\* the FileNotFoundError
find_remaining_markers(f, rg_installed) ==
    IF ~rg_installed THEN {}
    ELSE UNION {{<<pattern, q>> : q \in rg_hits(f, pattern)} : pattern \in MarkerPatterns}

----------------------------------------------------------------------------
(* The project trees and command lines of the model *)

\* the pristine template: one file per pass, a file the walk must skip in a
\* SKIP_DIRS directory, one with an unlisted extension, and the script;
\* PortalisPlus is an identifier that embeds the branded word
Template ==
    (<<"R","E","A","D","M","E",".","m","d">> :> <<"#"," ","P","o","r","t","a","l","i","s","\n","t","i","t","l","e","=","\"","P","o","r","t","a","l","i","s","\"">>)
    @@ (<<"d","o","c","/","o","v","e","r","v","i","e","w",".","m","d">> :> <<"P","o","r","t","a","l","i","s","P","l","u","s"," ","backtick","p","o","r","t","a","l","i","s","/","backtick">>)
    @@ (<<"t","e","s","t","s","/","a","l","l",".","s","h">> :> <<"\"","$","R","O","O","T","_","D","I","R","/","p","o","r","t","a","l","i","s","\"">>)
    @@ (<<".","g","i","t","h","u","b","/","w","o","r","k","f","l","o","w","s","/","p","i","p","e","l","i","n","e",".","y","m","l">> :> <<"W","O","R","K","I","N","G","_","D","I","R",":"," ","p","o","r","t","a","l","i","s">>)
    @@ (<<".","g","i","t","h","u","b","/","a","c","t","i","o","n","s","/","b","u","i","l","d","/","a","c","t","i","o","n",".","y","m","l">> :> <<"d","e","f","a","u","l","t",":"," ","p","o","r","t","a","l","i","s">>)
    @@ (<<"p","o","r","t","a","l","i","s","/","p","u","b","s","p","e","c",".","y","a","m","l">> :> <<"n","a","m","e",":"," ","p","o","r","t","a","l","i","s","\n">>)
    @@ (<<"p","o","r","t","a","l","i","s","/","l","i","b","/","m","a","i","n",".","d","a","r","t">> :> <<"p","a","c","k","a","g","e",":","p","o","r","t","a","l","i","s","/","a",".","d","a","r","t"," ","P","o","r","t","a","l","i","s","P","l","u","s">>)
    @@ (<<"p","o","r","t","a","l","i","s","/","w","e","b","/","i","n","d","e","x",".","h","t","m","l">> :> <<"<","t","i","t","l","e",">","p","o","r","t","a","l","i","s","<","/","t","i","t","l","e",">">>)
    @@ (<<"p","o","r","t","a","l","i","s","/","a","n","d","r","o","i","d","/","a","p","p","/","b","u","i","l","d",".","g","r","a","d","l","e">> :> <<"\"","c","o","m",".","e","x","a","m","p","l","e",".","p","o","r","t","a","l","i","s","\"">>)
    @@ (<<"p","o","r","t","a","l","i","s","/","a","n","d","r","o","i","d","/","a","p","p","/","s","r","c","/","m","a","i","n","/","k","o","t","l","i","n","/","c","o","m","/","e","x","a","m","p","l","e","/","p","o","r","t","a","l","i","s","/","M",".","k","t">>
            :> <<"c","o","m",".","e","x","a","m","p","l","e",".","p","o","r","t","a","l","i","s">>)
    @@ (<<"p","o","r","t","a","l","i","s","/","l","o","g","o",".","p","n","g">> :> <<"P","o","r","t","a","l","i","s">>)
    @@ (<<"b","u","i","l","d","/","o","u","t",".","t","x","t">> :> <<"p","o","r","t","a","l","i","s">>)
    @@ (SCRIPT_PATH :> <<"p","o","r","t","a","l","i","s">>)

\* the empty directories of the template
TemplateDirs == {<<"p","o","r","t","a","l","i","s","/","a","s","s","e","t","s">>}

restrict(f, S) == [p \in S |-> f[p]]

\* the template with its manifest missing
NoManifest == restrict(Template, DOMAIN Template \ {<<"p","o","r","t","a","l","i","s","/","p","u","b","s","p","e","c",".","y","a","m","l">>})

InitTrees ==
    {[fs |-> Template, dirs |-> TemplateDirs],
     [fs |-> NoManifest, dirs |-> TemplateDirs]}

NoArgv == [slug |-> <<>>, has_title |-> FALSE, app_title |-> <<>>]

\* a plain slug; a slug that is the name of a directory of the template, with
\* padding and a title override; a slug that embeds the default name; a slug
\* the pattern refuses
Argvs ==
    {[slug |-> <<"m","y","_","a","p","p">>, has_title |-> FALSE, app_title |-> <<>>],
     [slug |-> <<"d","o","c"," ">>, has_title |-> TRUE, app_title |-> <<" ","A","c","m","e"," ">>],
     [slug |-> <<"p","o","r","t","a","l","i","s","2">>, has_title |-> FALSE, app_title |-> <<>>],
     [slug |-> <<"M","y","-","A","p","p">>, has_title |-> FALSE, app_title |-> <<>>]}

----------------------------------------------------------------------------
(* main() *)

\* main() with the directory rename moved before the package metadata pass
main_order_rename_early ==
    <<"update_readmes", "update_docs", "update_tests_scripts", "update_ci",
      "rename_flutter_directory", "update_flutter_package",
      "update_platform_identifiers", "apply_global_replacements",
      "find_remaining_markers">>

\* the calls of main() in order
main_order ==
    <<"update_readmes", "update_docs", "update_tests_scripts", "update_ci",
      "update_flutter_package", "rename_flutter_directory",
      "update_platform_identifiers", "apply_global_replacements",
      "find_remaining_markers">>

step_after(p) ==
    LET i == index_in(main_order, p)
    IN IF i = Len(main_order) THEN "idle" ELSE main_order[i + 1]

NoCall == [n |-> 0, path |-> ROOT, tf |-> closure("none", NoContext, NoNames, NoPairs),
           fs |-> <<>>, changed |-> <<>>]

Init ==
    /\ \E t \in InitTrees : fs = t.fs /\ dirs = t.dirs
    /\ ctx = NoContext
    /\ changed = <<>>
    /\ leftovers = {}
    /\ pc = "idle"
    /\ exit = "none"
    /\ argv = NoArgv
    /\ prev = [argv |-> NoArgv, exit |-> "none"]
    /\ run = 0
    /\ fs0 = fs
    /\ dirs0 = dirs
    /\ start_name = <<>>
    /\ names_ever = <<>>
    /\ steps = <<>>
    /\ call = NoCall

state == [fs |-> fs, dirs |-> dirs, changed |-> changed]

\* a pass returns: its effects, and main() goes on to the next call
finish_pass(st, c, names, suffixes) ==
    /\ fs' = st.fs
    /\ dirs' = st.dirs
    /\ changed' = st.changed
    /\ ctx' = c
    /\ steps' = Append(steps, [pass |-> pc, names |-> names, suffixes |-> suffixes])
    /\ pc' = step_after(pc)
    /\ exit' = IF step_after(pc) = "idle" THEN "ok" ELSE exit
    /\ UNCHANGED <<argv, prev, run, fs0, dirs0, start_name, call>>

\* ctx = parse_args(); changed = []
ParseArgs ==
    /\ pc = "idle"
    /\ run < MaxRuns
    /\ \E a \in Argvs :
        LET r == parse_args(a, fs, dirs)
        IN /\ argv' = a
           /\ ctx' = r.ctx
           /\ pc' = IF r.status = "ok" THEN main_order[1] ELSE "idle"
           /\ exit' = IF r.status = "ok" THEN "running" ELSE r.status
           /\ start_name' = r.ctx.current_dir_name
           /\ names_ever' =
                 IF r.status # "ok" THEN names_ever
                 ELSE IF names_ever # <<>>
                         /\ names_ever[Len(names_ever)] = r.ctx.current_dir_name
                      THEN names_ever
                      ELSE <<r.ctx.current_dir_name>>
    /\ prev' = [argv |-> argv, exit |-> exit]
    /\ run' = run + 1
    /\ fs0' = fs
    /\ dirs0' = dirs
    /\ changed' = <<>>
    /\ leftovers' = {}
    /\ steps' = <<>>
    /\ UNCHANGED <<fs, dirs, call>>

UpdateReadmes ==
    /\ pc = "update_readmes"
    /\ finish_pass(update_readmes(ctx, state), ctx, {}, {})
    /\ UNCHANGED <<leftovers, names_ever>>

UpdateDocs ==
    /\ pc = "update_docs"
    /\ \E names \in orderings(ctx.previous_names) :
        finish_pass(update_docs(ctx, names, state), ctx, Range(names), {})
    /\ UNCHANGED <<leftovers, names_ever>>

UpdateTestsScripts ==
    /\ pc = "update_tests_scripts"
    /\ \E names \in orderings(ctx.previous_names) :
        finish_pass(update_tests_scripts(ctx, names, state), ctx, Range(names), {})
    /\ UNCHANGED <<leftovers, names_ever>>

UpdateCi ==
    /\ pc = "update_ci"
    /\ \E names \in orderings(ctx.previous_names) :
        finish_pass(update_ci(ctx, names, state), ctx, Range(names), {})
    /\ UNCHANGED <<leftovers, names_ever>>

UpdateFlutterPackage ==
    /\ pc = "update_flutter_package"
    /\ \E names \in orderings(ctx.previous_names) :
        finish_pass(update_flutter_package(ctx, names, state), ctx, Range(names), {})
    /\ UNCHANGED <<leftovers, names_ever>>

\* on a conflict the SystemExit ends the invocation
RenameFlutterDirectory ==
    /\ pc = "rename_flutter_directory"
    /\ LET r == rename_flutter_directory(ctx, state)
       IN IF r.status = "conflict"
          THEN /\ pc' = "idle"
               /\ exit' = "conflict"
               /\ UNCHANGED <<fs, dirs, ctx, changed, steps, names_ever,
                              argv, prev, run, fs0, dirs0, start_name, call>>
          ELSE /\ finish_pass(r.st, r.ctx, {}, {})
               /\ names_ever' = IF r.status = "renamed"
                                THEN Append(names_ever, r.ctx.current_dir_name)
                                ELSE names_ever
    /\ UNCHANGED leftovers

UpdatePlatformIdentifiers ==
    /\ pc = "update_platform_identifiers"
    /\ \E suffixes \in orderings(ctx.previous_bundle_suffixes) :
        finish_pass(update_platform_identifiers(ctx, suffixes, state), ctx, {}, Range(suffixes))
    /\ UNCHANGED <<leftovers, names_ever>>

ApplyGlobalReplacements ==
    /\ pc = "apply_global_replacements"
    /\ \E names \in orderings(ctx.previous_names) :
        \E suffixes \in orderings(ctx.previous_bundle_suffixes) :
            finish_pass(apply_global_replacements(ctx, names, suffixes, state), ctx,
                        Range(names), Range(suffixes))
    /\ UNCHANGED <<leftovers, names_ever>>

\* leftovers = find_remaining_markers(["Portalis", "portalis"]), then the report
FindRemainingMarkers ==
    /\ pc = "find_remaining_markers"
    /\ \E rg_installed \in BOOLEAN :
        leftovers' = find_remaining_markers(fs, rg_installed)
    /\ finish_pass(state, ctx, {}, {})
    /\ UNCHANGED names_ever

Next ==
    \/ ParseArgs
    \/ UpdateReadmes
    \/ UpdateDocs
    \/ UpdateTestsScripts
    \/ UpdateCi
    \/ UpdateFlutterPackage
    \/ RenameFlutterDirectory
    \/ UpdatePlatformIdentifiers
    \/ ApplyGlobalReplacements
    \/ FindRemainingMarkers

Spec == Init /\ [][Next]_vars

----------------------------------------------------------------------------
(* update_file on its own: calls with the transforms of the passes on the   *)
(* project trees                                                           *)

\* the contexts of the valid command lines on the template
CallContexts ==
    {parse_args(a, Template, TemplateDirs).ctx :
        a \in {b \in Argvs : parse_args(b, Template, TemplateDirs).status = "ok"}}

\* files of the template, and a documentation file it does not have
CallPaths == {<<"R","E","A","D","M","E",".","m","d">>, <<"d","o","c","/","o","v","e","r","v","i","e","w",".","m","d">>, workflow, <<"d","o","c","/","b","u","i","l","d",".","m","d">>}

CallTransforms ==
    {closure(k, c, <<DEFAULT_DIRNAME>>, NoPairs) :
        k \in {"transform_root", "transform_doc", "transform_workflow"}, c \in CallContexts}

UpdateFileCall ==
    /\ call.n < MaxCalls
    /\ \E p \in CallPaths, tf \in CallTransforms :
        LET st == update_file(state, p, tf)
        IN /\ fs' = st.fs
           /\ changed' = st.changed
           /\ call' = [n |-> call.n + 1, path |-> p, tf |-> tf, fs |-> fs,
                       changed |-> changed]
    /\ UNCHANGED <<dirs, ctx, leftovers, pc, exit, argv, prev, run, fs0, dirs0,
                   start_name, names_ever, steps>>

SpecUpdateFile == Init /\ [][UpdateFileCall]_vars

----------------------------------------------------------------------------
(* Properties *)

passes_done == {steps[i].pass : i \in DOMAIN steps}
finished_ok == pc = "idle" /\ exit = "ok"
\* the files the tree walk rewrites
processed(path) == path # SCRIPT_PATH /\ should_process(path)
no_duplicates(s) == \A i, j \in DOMAIN s : s[i] = s[j] => i = j
PortalisPlus == <<"P","o","r","t","a","l","i","s","P","l","u","s">>

\* C1: when main() has completed once and is run again with the same
\* arguments, the second run leaves every file and directory as it found
\* them and ends with an empty changed list.
C1_Idempotent ==
    (finished_ok /\ prev.exit = "ok" /\ prev.argv = argv)
        => (fs = fs0 /\ dirs = dirs0 /\ changed = <<>>)

\* C2: one run on the pristine template with a valid slug S and no title
\* override leaves the manifest line as name: S, the workflow line as
\* WORKING_DIR: S, the project directory renamed to S, and no processed file
\* containing Portalis or portalis.
C2_EndToEnd ==
    (finished_ok /\ run = 1 /\ fs0 = Template /\ dirs0 = TemplateDirs /\ ~argv.has_title)
        => LET S == ctx.slug
           IN /\ child(S, PUBSPEC) \in DOMAIN fs
              /\ fs[child(S, PUBSPEC)] = <<"n","a","m","e",":"," ">> \o S \o <<"\n">>
              /\ fs[workflow] = <<"W","O","R","K","I","N","G","_","D","I","R",":"," ">> \o S
              /\ \A p \in DOMAIN fs : ~is_below(p, DEFAULT_DIRNAME)
              /\ \A p \in DOMAIN fs :
                    processed(p) => /\ ~contains(fs[p], PortalisWord)
                                    /\ ~contains(fs[p], DEFAULT_DIRNAME)

\* C3: when the template was renamed to A by one run and the next run is
\* given another slug B, every pass of that run iterates both the default
\* name and A, and the references to either name (manifest name, package
\* import, CI working directory, script path) read B afterwards.
C3_SecondRename ==
    (finished_ok /\ run = 2 /\ prev.exit = "ok" /\ fs0 # Template
        /\ start_name = strip(prev.argv.slug) /\ ctx.slug # start_name)
        => LET B == ctx.slug
           IN /\ \A i \in DOMAIN steps :
                    steps[i].names # {} => {DEFAULT_DIRNAME, start_name} \subseteq steps[i].names
              /\ fs[child(B, PUBSPEC)] = <<"n","a","m","e",":"," ">> \o B \o <<"\n">>
              /\ starts_with(fs[child(B, <<"l","i","b","/","m","a","i","n",".","d","a","r","t">>)], <<"p","a","c","k","a","g","e",":">> \o B \o <<"/","a",".","d","a","r","t">>)
              /\ fs[workflow] = <<"W","O","R","K","I","N","G","_","D","I","R",":"," ">> \o B
              /\ fs[<<"t","e","s","t","s","/","a","l","l",".","s","h">>] = <<"\"","$","R","O","O","T","_","D","I","R","/">> \o B \o <<"\"">>

\* C4 as claimed: after the conflict abort the source project directory has
\* the files and the file contents it had when the run started.
C4_SourceAsAtStart ==
    (pc = "idle" /\ exit = "conflict")
        => \A p \in DOMAIN fs0 :
               is_below(p, ctx.flutter_dir) => p \in DOMAIN fs /\ fs[p] = fs0[p]

\* C4 amended: when the rename step is reached with the current project
\* directory name different from the slug and an entry named slug in ROOT,
\* the run ends there with the conflict error and the step itself changes
\* nothing: no file or directory is renamed, added or removed in the whole
\* run, and the contents are those the earlier passes left.
C4_ConflictLeavesTree ==
    [][(/\ pc = "rename_flutter_directory"
        /\ ctx.current_dir_name # ctx.slug
        /\ \E q \in DOMAIN fs \cup dirs : q = ctx.slug \/ is_below(q, ctx.slug))
       => (/\ pc' = "idle"
           /\ exit' = "conflict"
           /\ fs' = fs
           /\ dirs' = dirs
           /\ DOMAIN fs' = DOMAIN fs0
           /\ dirs' = dirs0)]_vars

\* a run stopped by the conflict after an earlier pass rewrote the manifest
C4_Witness ==
    /\ pc = "idle"
    /\ exit = "conflict"
    /\ fs[child(ctx.flutter_dir, PUBSPEC)] # fs0[child(ctx.flutter_dir, PUBSPEC)]

\* ^[a-z][a-z0-9_]*$
matches_slug_pattern(s) ==
    /\ Len(s) >= 1
    /\ s[1] \in Range(LowerChars)
    /\ \A i \in 2..Len(s) : s[i] \in Range(LowerChars) \cup Range(DigitChars) \cup {"_"}

\* no directory of ROOT holds a manifest
no_manifest(f) == \A q \in DOMAIN f : ~(path_depth(q) = 2 /\ path_name(q) = PUBSPEC)

\* C5: a run whose slug does not match the pattern, or that finds no
\* directory with a manifest, has ended with an error exit, with every file
\* and directory as before the run and an empty changed list.
C5_FatalStartTouchesNothing ==
    (run >= 1 /\ (~matches_slug_pattern(strip(argv.slug)) \/ no_manifest(fs0)))
        => /\ pc = "idle"
           /\ exit \in {"usage", "notfound"}
           /\ fs = fs0
           /\ dirs = dirs0
           /\ changed = <<>>

\* a bad slug refused, then a valid slug with no manifest to find
C5_Witness == prev.exit = "usage" /\ exit = "notfound" /\ pc = "idle"

before_rename == {"update_readmes", "update_docs", "update_tests_scripts", "update_ci",
                  "update_flutter_package"}
after_rename == {"update_platform_identifiers", "apply_global_replacements",
                 "find_remaining_markers"}

\* C6: the directory rename runs after the documentation, helper-script, CI
\* and package-metadata passes and before the platform-identifier pass and
\* the global sweep; nothing modifies the tree once the sweep has finished,
\* and the leftover scan runs after the sweep.
C6_PassOrder ==
    /\ [](/\ (pc = "rename_flutter_directory" \/ "rename_flutter_directory" \in passes_done)
                => before_rename \subseteq passes_done
          /\ (pc = "rename_flutter_directory")
                => passes_done \cap after_rename = {}
          /\ (passes_done \cap after_rename # {})
                => "rename_flutter_directory" \in passes_done
          /\ (pc = "find_remaining_markers" \/ "find_remaining_markers" \in passes_done)
                => "apply_global_replacements" \in passes_done)
    /\ [][("apply_global_replacements" \in passes_done) => (fs' = fs /\ dirs' = dirs)]_vars

\* a finished run that renamed the project directory
C6_Witness ==
    finished_ok /\ start_name # ctx.slug /\ Len(steps) = Len(main_order)
        /\ ~path_exists(fs, dirs, start_name)

occurrences(s, x) == Cardinality({i \in DOMAIN s : s[i] = x})

\* C7: update_file on a missing path, or with a transform that returns the
\* content unchanged, leaves the files and the changed list as they were;
\* otherwise the content becomes the transform's result, no other file
\* changes, and the path is in the changed list exactly once.
C7_WriteOnlyOnChange ==
    call.n > 0 =>
        IF call.path \notin DOMAIN call.fs
        THEN fs = call.fs /\ changed = call.changed
        ELSE LET updated == apply_transform(call.tf, call.fs[call.path])
             IN IF updated = call.fs[call.path]
                THEN fs = call.fs /\ changed = call.changed
                ELSE /\ fs = [call.fs EXCEPT ![call.path] = updated]
                     /\ occurrences(changed, call.path) = 1
                     /\ \A i \in DOMAIN call.changed : changed[i] = call.changed[i]
                     /\ Len(changed) <= Len(call.changed) + 1

\* a second write to a file that is already in the changed list
C7_Witness ==
    /\ call.n > 1
    /\ call.path \in DOMAIN call.fs
    /\ fs # call.fs
    /\ changed = call.changed
    /\ occurrences(changed, call.path) = 1

\* C8 as claimed: in every invocation previous_names holds every name the
\* project directory had before its current one.
C8_EveryNameEver ==
    (pc # "idle") => (Range(names_ever) \ {ctx.current_dir_name}) \subseteq ctx.previous_names

\* C8 amended: after the context is built, previous_names holds the default
\* name and the name the project directory had when the invocation started,
\* and every pass that replaces old names iterates a set that holds both.
C8_DefaultAndStartName ==
    (pc # "idle") =>
        /\ {DEFAULT_DIRNAME, start_name} \subseteq ctx.previous_names
        /\ \A i \in DOMAIN steps :
              steps[i].pass \in {"update_docs", "update_tests_scripts", "update_ci",
                                 "update_flutter_package", "apply_global_replacements"}
                  => {DEFAULT_DIRNAME, start_name} \subseteq steps[i].names

\* the sweep of a later invocation, started on an already renamed project
C8_Witness ==
    /\ pc = "find_remaining_markers"
    /\ start_name # DEFAULT_DIRNAME
    /\ start_name # ctx.slug
    /\ Cardinality(ctx.previous_names) = 2

\* C9: the changed list never holds an entry twice; the directory rename
\* turns every entry that began with the old directory name or the default
\* name plus "/" into the same entry under slug + "/", at the same index,
\* and leaves the other entries recorded before it as they were.
C9_ChangedShape ==
    /\ [](no_duplicates(changed))
    /\ [][(pc = "rename_flutter_directory" /\ pc' = "update_platform_identifiers"
             /\ ctx.current_dir_name # ctx.slug)
          => /\ Len(changed') = Len(changed) + 1
             /\ changed'[Len(changed')] = ctx.slug
             /\ \A i \in DOMAIN changed :
                   LET e == changed[i]
                       olds == {n \in {ctx.current_dir_name, DEFAULT_DIRNAME} :
                                   starts_with(e, n \o Slash)}
                   IN IF olds = {} THEN changed'[i] = e
                      ELSE \E n \in olds :
                              changed'[i] = ctx.slug \o SubSeq(e, Len(n) + 1, Len(e))]_vars

\* after a rename, entries recorded under the old name stand under the slug
C9_Witness ==
    /\ pc = "update_platform_identifiers"
    /\ start_name # ctx.slug
    /\ \E i \in DOMAIN changed : changed[i] = child(ctx.slug, PUBSPEC)
    /\ \E i \in DOMAIN changed : changed[i] = child(ROOT, README)

\* C10: in every pass of a run a processed file that holds the longer
\* identifier PortalisPlus still holds it afterwards: the bare word is
\* replaced only where it stands as a whole token.
C10_WholeTokenEveryPass ==
    \A p \in DOMAIN fs \cap DOMAIN fs0 :
        (processed(p) /\ contains(fs0[p], PortalisPlus)) => contains(fs[p], PortalisPlus)

====
